---- MODULE Spec2Model ----
(***************************************************************************)
(* xortool.py: repeating-key XOR analysis.                                 *)
(*   - guess the key length (count of equal chars per offset)              *)
(*   - guess the key (knowledge of the most frequent plaintext char)       *)
(* The model follows one run of main(): the ciphertext and the PARAMETERS  *)
(* are drawn in Init, and every step of main is one action.                *)
(***************************************************************************)
EXTENDS Integers, Sequences, FiniteSets, TLC

\* ------------------------------------------------------------------------
\* Bounds of the model
\* ------------------------------------------------------------------------
MaxByte == 1          \* byte values range over 0..MaxByte
MaxTextLen == 5       \* ciphertexts of 0..MaxTextLen bytes
MaxKeyLength == 4     \* -l and -m options range up to MaxKeyLength

\* ------------------------------------------------------------------------
\* Program constants
\* ------------------------------------------------------------------------
None == -1            \* PARAMETERS["most_frequent_char"] is None
FitnessBase == 64     \* float(fitness)/(64 + key_length**0.5)
MinDivizor == 3       \* range(3, key_length+1)
DefaultRet == 2       \* ret = 2
ShownKeys == 5        \* keys[:5]
EllipsisAfter == 10   \* if len(keys) > 10

Bytes == 0..MaxByte

VARIABLES
    text,           \* the ciphertext returned by get_ciphertext()
    PARAMETERS,     \* known_key_length, most_frequent_char, max_key_length
    pc,             \* position of main()
    fitnesses,      \* the table built by calculate_fitnesses
    divizor,        \* value returned by guess_and_print_divizors
    chars_counts,   \* the per-offset tables guess_keys computed, in offset order
    probable_keys,  \* value returned by guess_probable_keys
    output,         \* lines printed so far
    dirmade,        \* the directory DIRNAME was (re)created
    files           \* files written under DIRNAME

vars == <<text, PARAMETERS, pc, fitnesses, divizor, chars_counts,
          probable_keys, output, dirmade, files>>

\* ------------------------------------------------------------------------
\* Arithmetic helpers
\* ------------------------------------------------------------------------

\* ord(char) ^ most_char : bitwise exclusive or of two naturals
RECURSIVE Xor(_, _)
Xor(a, b) ==
    IF a = 0 THEN b
    ELSE IF b = 0 THEN a
    ELSE 2 * Xor(a \div 2, b \div 2) + ((a + b) % 2)

\* floor and ceiling of the square root of a natural
SqrtLo(n) == CHOOSE r \in 0..n : r * r <= n /\ (r + 1) * (r + 1) > n
SqrtHi(n) == CHOOSE r \in 0..n : r * r >= n /\ (r = 0 \/ (r - 1) * (r - 1) < n)

\* A fitness is the float raw/(64 + sqrt(len)); it is kept as the pair of
\* integers that determines it, and compared exactly.  Two fitnesses that are
\* equal as reals round to the same float, and unequal ones of this size
\* differ by far more than a rounding error, so the exact order is the order
\* of the floats.
Fitness(raw, key_length) == [raw |-> raw, len |-> key_length]
ZeroFitness == Fitness(0, 0)

\* x < v*sqrt(p) - u*sqrt(q)  for integers x and naturals u, v, p, q
LessThanSurd(x, v, p, u, q) ==
    LET lo == v * SqrtLo(p) - u * SqrtHi(q)
        hi == v * SqrtHi(p) - u * SqrtLo(q)
        d  == v * v * p - u * u * q          \* sign of v*sqrt(p) - u*sqrt(q)
        s  == v * v * p + u * u * q
        t  == s - x * x
        m  == 4 * u * u * v * v * p * q      \* (2uv sqrt(pq))^2
    IN  IF x < lo THEN TRUE
        ELSE IF x >= hi THEN FALSE
        ELSE IF x >= 0 THEN d > 0 /\ t > 0 /\ m < t * t
        ELSE d >= 0 \/ t < 0 \/ m > t * t

\* f < g as floats: f.raw/(64+sqrt(f.len)) < g.raw/(64+sqrt(g.len))
FitnessLess(f, g) ==
    LessThanSurd(FitnessBase * (f.raw - g.raw), g.raw, f.len, f.raw, g.len)

\* ------------------------------------------------------------------------
\* chars_count_at_offset
\* ------------------------------------------------------------------------
EmptyDict == [c \in {} |-> 0]

\* mutant: the positions are walked with step 1 instead of key_length
RECURSIVE chars_count_loop_step1(_, _, _, _)
chars_count_loop_step1(t, key_length, pos, chars_count) ==
    IF pos >= Len(t) THEN chars_count
    ELSE LET c == t[pos + 1]
         IN  chars_count_loop_step1(t, key_length, pos + 1,
                 IF c \in DOMAIN chars_count
                 THEN [chars_count EXCEPT ![c] = @ + 1]
                 ELSE [d \in DOMAIN chars_count \cup {c} |->
                          IF d = c THEN 1 ELSE chars_count[d]])

RECURSIVE chars_count_loop(_, _, _, _)
chars_count_loop(t, key_length, pos, chars_count) ==
    IF pos >= Len(t) THEN chars_count
    ELSE LET c == t[pos + 1]
         IN  chars_count_loop(t, key_length, pos + key_length,
                 IF c \in DOMAIN chars_count
                 THEN [chars_count EXCEPT ![c] = @ + 1]
                 ELSE [d \in DOMAIN chars_count \cup {c} |->
                          IF d = c THEN 1 ELSE chars_count[d]])

chars_count_at_offset(t, key_length, offset) ==
    chars_count_loop(t, key_length, offset, EmptyDict)

\* max(chars_count.values()); raises ValueError on an empty dict
MaxRaises(chars_count) == DOMAIN chars_count = {}
MaxValues(chars_count) ==
    CHOOSE v \in {chars_count[c] : c \in DOMAIN chars_count} :
        \A c \in DOMAIN chars_count : chars_count[c] <= v

\* ------------------------------------------------------------------------
\* KEYLENGTH GUESSING SECTION
\* ------------------------------------------------------------------------

\* count equal chars count for each offset and sum them
RECURSIVE count_equals_loop(_, _, _, _)
count_equals_loop(t, key_length, offset, equals_count) ==
    IF offset >= key_length THEN equals_count
    ELSE count_equals_loop(t, key_length, offset + 1,
             equals_count
               + MaxValues(chars_count_at_offset(t, key_length, offset)) - 1)

count_equals(t, key_length) ==
    IF key_length >= Len(t) THEN 0
    ELSE count_equals_loop(t, key_length, 0, 0)

\* mutant: a local maximum is reported under key_length, not key_length-1
RECURSIVE calculate_fitnesses_loop_late(_, _, _, _, _, _)
calculate_fitnesses_loop_late(t, max_key_length, key_length, prev, pprev, fits) ==
    IF key_length > max_key_length THEN fits
    ELSE LET fitness == Fitness(count_equals(t, key_length), key_length)
         IN  calculate_fitnesses_loop_late(t, max_key_length, key_length + 1,
                 fitness, prev,
                 IF FitnessLess(pprev, prev) /\ FitnessLess(fitness, prev)
                 THEN Append(fits, <<key_length, prev>>)
                 ELSE fits)

\* the loop of calculate_fitnesses over key_length in 1..max_key_length
RECURSIVE calculate_fitnesses_loop(_, _, _, _, _, _)
calculate_fitnesses_loop(t, max_key_length, key_length, prev, pprev, fits) ==
    IF key_length > max_key_length THEN fits
    ELSE LET fitness == Fitness(count_equals(t, key_length), key_length)
         IN  calculate_fitnesses_loop(t, max_key_length, key_length + 1,
                 fitness, prev,
                 IF FitnessLess(pprev, prev) /\ FitnessLess(fitness, prev)
                 THEN Append(fits, <<key_length - 1, prev>>)
                 ELSE fits)

\* mutant: the sweep looks one length beyond max_key_length
calculate_fitnesses_beyond(t, max_key_length) ==
    calculate_fitnesses_loop(t, max_key_length + 1, 1, ZeroFitness, ZeroFitness, <<>>)

calculate_fitnesses(t, max_key_length) ==
    calculate_fitnesses_loop(t, max_key_length, 1, ZeroFitness, ZeroFitness, <<>>)

\* lines printed by print_fitnesses: the header, then one line per entry
\* (the percentage shown on the line is not modelled)
print_fitnesses(fits) ==
    <<<<"Probable key lengths:">>>>
      \o [i \in 1..Len(fits) |-> <<"length", fits[i][1]>>]

\* divizors_counts after the first loop of guess_and_print_divizors
divizors_counts(fits, max_key_length) ==
    [number \in 0..max_key_length |->
        Cardinality({i \in 1..Len(fits) :
            /\ number \in MinDivizor..fits[i][1]
            /\ fits[i][1] % number = 0})]

\* the numbers guess_and_print_divizors prints, in the order printed
RECURSIVE divizors_printed(_, _, _)
divizors_printed(counts, max_divizors, number) ==
    IF number \notin DOMAIN counts THEN <<>>
    ELSE (IF counts[number] = max_divizors THEN <<number>> ELSE <<>>)
           \o divizors_printed(counts, max_divizors, number + 1)

print_divizors(fits, max_key_length) ==
    LET counts == divizors_counts(fits, max_key_length)
        max_divizors == MaxValues(counts)
        printed == divizors_printed(counts, max_divizors, 0)
    IN  [i \in 1..Len(printed) |-> <<"Key-length can be n*", printed[i]>>]

\* mutant: the first divizor printed is returned, not the last
guess_and_print_divizors_first(fits, max_key_length) ==
    LET counts == divizors_counts(fits, max_key_length)
        max_divizors == MaxValues(counts)
        printed == divizors_printed(counts, max_divizors, 0)
    IN  IF printed = <<>> THEN DefaultRet ELSE printed[1]

guess_and_print_divizors(fits, max_key_length) ==
    LET counts == divizors_counts(fits, max_key_length)
        max_divizors == MaxValues(counts)
        printed == divizors_printed(counts, max_divizors, 0)
    IN  IF printed = <<>> THEN DefaultRet ELSE printed[Len(printed)]

\* mutant: the comparison with max_fitness is reversed
RECURSIVE get_max_loop_reversed(_, _, _, _)
get_max_loop_reversed(fits, i, max_fitness, max_fitnessed_key_length) ==
    IF i > Len(fits) THEN max_fitnessed_key_length
    ELSE IF FitnessLess(fits[i][2], max_fitness)
         THEN get_max_loop_reversed(fits, i + 1, fits[i][2], fits[i][1])
         ELSE get_max_loop_reversed(fits, i + 1, max_fitness,
                                    max_fitnessed_key_length)

RECURSIVE get_max_loop(_, _, _, _)
get_max_loop(fits, i, max_fitness, max_fitnessed_key_length) ==
    IF i > Len(fits) THEN max_fitnessed_key_length
    ELSE IF FitnessLess(max_fitness, fits[i][2])
         THEN get_max_loop(fits, i + 1, fits[i][2], fits[i][1])
         ELSE get_max_loop(fits, i + 1, max_fitness, max_fitnessed_key_length)

get_max_fitnessed_key_length(fits) == get_max_loop(fits, 1, ZeroFitness, 0)

\* ------------------------------------------------------------------------
\* KEYS GUESSING SECTION
\* ------------------------------------------------------------------------

\* Iteration order of a dict of single chars.  The order is fixed by the
\* interpreter's hashing, not by the program: it is modelled as ascending
\* order of (char XOR mask) for a mask the run does not control.
RECURSIVE dict_order(_, _)
dict_order(chars, mask) ==
    IF chars = {} THEN <<>>
    ELSE LET c == CHOOSE x \in chars :
                      \A y \in chars : Xor(x, mask) <= Xor(y, mask)
         IN  <<c>> \o dict_order(chars \ {c}, mask)

\* mutant: a tie is broken, only the first most frequent char is kept
RECURSIVE possible_bytes_loop_first(_, _, _, _)
possible_bytes_loop_first(chars_count, order, max_count, most_char) ==
    IF order = <<>> THEN <<>>
    ELSE IF chars_count[Head(order)] >= max_count
         THEN <<Xor(Head(order), most_char)>>
         ELSE possible_bytes_loop_first(chars_count, Tail(order), max_count,
                                        most_char)

\* key_possible_bytes[offset] after the inner loop of guess_keys
RECURSIVE possible_bytes_loop(_, _, _, _)
possible_bytes_loop(chars_count, order, max_count, most_char) ==
    IF order = <<>> THEN <<>>
    ELSE (IF chars_count[Head(order)] >= max_count
          THEN <<Xor(Head(order), most_char)>> ELSE <<>>)
           \o possible_bytes_loop(chars_count, Tail(order), max_count, most_char)

key_possible_bytes(t, key_length, most_char, mask) ==
    [i \in 1..key_length |->
        LET chars_count == chars_count_at_offset(t, key_length, i - 1)
        IN  possible_bytes_loop(chars_count,
                dict_order(DOMAIN chars_count, mask),
                MaxValues(chars_count), most_char)]

\* Produce all combinations of possible key chars
RECURSIVE all_keys(_, _, _)
RECURSIVE all_keys_loop(_, _, _, _)

\* mutant: the recursion stops one offset early
all_keys_short(kpb, key_part, offset) ==
    IF offset + 1 >= Len(kpb) THEN <<key_part>>
    ELSE all_keys_loop(kpb, key_part, offset, 1)

all_keys_loop(kpb, key_part, offset, i) ==
    IF i > Len(kpb[offset + 1]) THEN <<>>
    ELSE all_keys(kpb, Append(key_part, kpb[offset + 1][i]), offset + 1)
           \o all_keys_loop(kpb, key_part, offset, i + 1)

all_keys(kpb, key_part, offset) ==
    IF offset >= Len(kpb) THEN <<key_part>>
    ELSE all_keys_loop(kpb, key_part, offset, 1)

\* offsets guess_keys visits before max() raises (all of them if it never does)
guess_keys_visited(t, key_length) ==
    LET empty == {o \in 0..(key_length - 1) :
                     MaxRaises(chars_count_at_offset(t, key_length, o))}
    IN  IF empty = {} THEN key_length
        ELSE 1 + (CHOOSE o \in empty : \A e \in empty : o <= e)

\* guess_keys evaluates max() of an empty dict at some offset
guess_keys_raises(t, key_length) ==
    \E o \in 0..(key_length - 1) :
        MaxRaises(chars_count_at_offset(t, key_length, o))

guess_keys(t, key_length, most_char, mask) ==
    all_keys(key_possible_bytes(t, key_length, most_char, mask), <<>>, 0)

\* lines printed by print_keys
print_keys(keys) ==
    IF keys = <<>> THEN <<<<"No keys guessed!">>>>
    ELSE <<<<"possible key(s) of length", Len(keys), Len(keys[1])>>>>
           \o [i \in 1..(IF Len(keys) < ShownKeys THEN Len(keys) ELSE ShownKeys)
                  |-> <<"key", keys[i]>>]
           \o (IF Len(keys) > EllipsisAfter THEN <<<<"...">>>> ELSE <<>>)

\* ------------------------------------------------------------------------
\* PRODUCE OUTPUT
\* ------------------------------------------------------------------------

\* routine.dexor: byte-wise XOR of the text against the repeated key
dexor(t, key) == [i \in 1..Len(t) |-> Xor(t[i], key[((i - 1) % Len(key)) + 1])]

\* the files produce_plaintexts writes, one per key, when every dexor returns
\* (an empty key that dexor accepts leaves the text as it is)
produce_plaintexts(t, keys) ==
    [i \in 1..Len(keys) |->
        [index |-> i - 1, key |-> keys[i],
         data |-> IF keys[i] = <<>> THEN t ELSE dexor(t, keys[i])]]

\* the files left behind when dexor fails on the first empty key: the files
\* of the keys before it, and the file just opened for it, still empty
produce_plaintexts_failed(t, keys) ==
    LET bad == CHOOSE i \in 1..Len(keys) :
                   keys[i] = <<>> /\ \A j \in 1..(i - 1) : keys[j] # <<>>
    IN  [i \in 1..bad |->
            [index |-> i - 1, key |-> keys[i],
             data |-> IF i = bad THEN <<>> ELSE dexor(t, keys[i])]]

\* ------------------------------------------------------------------------
\* One run of main()
\* ------------------------------------------------------------------------
Texts == UNION {[1..n -> Bytes] : n \in 0..MaxTextLen}

\* parse_parameters() and get_ciphertext(): known_key_length 0 stands for a
\* key length that was not supplied.  max_key_length is read by the
\* estimator alone: it varies in the runs that estimate the length.
Init ==
    /\ text \in Texts
    /\ PARAMETERS \in [known_key_length : 0..MaxKeyLength,
                       most_frequent_char : {None} \cup Bytes,
                       max_key_length : 1..MaxKeyLength]
    /\ PARAMETERS.known_key_length # 0 => PARAMETERS.max_key_length = MaxKeyLength
    /\ pc = "update_key_length"
    /\ fitnesses = <<>>
    /\ divizor = None
    /\ chars_counts = <<>>
    /\ probable_keys = <<>>
    /\ output = <<>>
    /\ dirmade = FALSE
    /\ files = <<>>

\* update_key_length: the key length is set, nothing to guess
UpdateKeyLengthKnown ==
    /\ pc = "update_key_length"
    /\ PARAMETERS.known_key_length # 0
    /\ pc' = "guess_probable_keys"
    /\ UNCHANGED <<text, PARAMETERS, fitnesses, divizor, chars_counts,
                   probable_keys, output, dirmade, files>>

\* update_key_length -> guess_key_length
GuessKeyLength ==
    /\ pc = "update_key_length"
    /\ PARAMETERS.known_key_length = 0
    /\ LET fits == calculate_fitnesses(text, PARAMETERS.max_key_length)
       IN  /\ fitnesses' = fits
           /\ output' = output \o print_fitnesses(fits)
                               \o print_divizors(fits, PARAMETERS.max_key_length)
           /\ divizor' = guess_and_print_divizors(fits, PARAMETERS.max_key_length)
           /\ PARAMETERS' = [PARAMETERS EXCEPT
                  !.known_key_length = get_max_fitnessed_key_length(fits)]
    /\ pc' = "guess_probable_keys"
    /\ UNCHANGED <<text, chars_counts, probable_keys, dirmade, files>>

\* guess_probable_keys: die("Most possible char is needed to guess the key!")
GuessProbableKeysDie ==
    /\ pc = "guess_probable_keys"
    /\ PARAMETERS.most_frequent_char = None
    /\ pc' = "died"
    /\ UNCHANGED <<text, PARAMETERS, fitnesses, divizor, chars_counts,
                   probable_keys, output, dirmade, files>>

\* guess_probable_keys -> guess_keys, where max() raises ValueError
GuessKeysRaise ==
    /\ pc = "guess_probable_keys"
    /\ PARAMETERS.most_frequent_char # None
    /\ guess_keys_raises(text, PARAMETERS.known_key_length)
    /\ chars_counts' =
           [i \in 1..guess_keys_visited(text, PARAMETERS.known_key_length) |->
               chars_count_at_offset(text, PARAMETERS.known_key_length, i - 1)]
    /\ pc' = "ValueError"
    /\ UNCHANGED <<text, PARAMETERS, fitnesses, divizor, probable_keys,
                   output, dirmade, files>>

\* guess_probable_keys -> guess_keys -> all_keys
GuessKeys ==
    /\ pc = "guess_probable_keys"
    /\ PARAMETERS.most_frequent_char # None
    /\ ~guess_keys_raises(text, PARAMETERS.known_key_length)
    /\ chars_counts' =
           [i \in 1..PARAMETERS.known_key_length |->
               chars_count_at_offset(text, PARAMETERS.known_key_length, i - 1)]
    /\ \E mask \in Bytes :
           probable_keys' = guess_keys(text, PARAMETERS.known_key_length,
                                       PARAMETERS.most_frequent_char, mask)
    /\ pc' = "print_keys"
    /\ UNCHANGED <<text, PARAMETERS, fitnesses, divizor, output, dirmade, files>>

PrintKeys ==
    /\ pc = "print_keys"
    /\ output' = output \o print_keys(probable_keys)
    /\ pc' = "produce_plaintexts"
    /\ UNCHANGED <<text, PARAMETERS, fitnesses, divizor, chars_counts,
                   probable_keys, dirmade, files>>

\* produce_plaintexts, every dexor call returning
ProducePlaintexts ==
    /\ pc = "produce_plaintexts"
    /\ dirmade' = TRUE
    /\ files' = produce_plaintexts(text, probable_keys)
    /\ pc' = "done"
    /\ UNCHANGED <<text, PARAMETERS, fitnesses, divizor, chars_counts,
                   probable_keys, output>>

\* produce_plaintexts, dexor failing on a key of length 0
ProducePlaintextsDexorFails ==
    /\ pc = "produce_plaintexts"
    /\ \E i \in 1..Len(probable_keys) : probable_keys[i] = <<>>
    /\ dirmade' = TRUE
    /\ files' = produce_plaintexts_failed(text, probable_keys)
    /\ pc' = "dexor_failed"
    /\ UNCHANGED <<text, PARAMETERS, fitnesses, divizor, chars_counts,
                   probable_keys, output>>

Next ==
    \/ UpdateKeyLengthKnown
    \/ GuessKeyLength
    \/ GuessProbableKeysDie
    \/ GuessKeysRaise
    \/ GuessKeys
    \/ PrintKeys
    \/ ProducePlaintexts
    \/ ProducePlaintextsDexorFails

Spec == Init /\ [][Next]_vars

\* ------------------------------------------------------------------------
\* Vocabulary of the properties
\* ------------------------------------------------------------------------
Range(seq) == {seq[i] : i \in DOMAIN seq}

\* the key length was estimated by guess_key_length in this run
Estimated == divizor # None

\* the estimator has just returned to main
LengthGuessed == Estimated /\ pc = "guess_probable_keys"

\* guess_keys has just returned its key list to main
KeysGuessed == pc = "print_keys"

KeyLength == PARAMETERS.known_key_length
MostChar == PARAMETERS.most_frequent_char

\* number of positions of t congruent to offset modulo L that hold byte b
Occurrences(t, L, offset, b) ==
    Cardinality({i \in 1..Len(t) : (i - 1) % L = offset /\ t[i] = b})

\* b attains the maximum occurrence count at the offset (ties allowed)
AttainsMax(t, L, offset, b) ==
    LET n == Occurrences(t, L, offset, b)
    IN  \A c \in Range(t) : Occurrences(t, L, offset, c) <= n

\* the candidate key bytes of an offset: {b XOR m : b is a most frequent byte}
Candidates(t, L, offset, m) ==
    {Xor(b, m) : b \in {c \in Range(t) : /\ Occurrences(t, L, offset, c) > 0
                                          /\ AttainsMax(t, L, offset, c)}}

\* the Cartesian product of the sets cands[1], ..., cands[n], as sequences
RECURSIVE KeysOver(_, _)
KeysOver(cands, n) ==
    IF n = 0 THEN {<<>>}
    ELSE {Append(k, c) : k \in KeysOver(cands, n - 1), c \in cands[n]}

RECURSIVE Product(_, _)
Product(f, S) ==
    IF S = {} THEN 1
    ELSE LET x == CHOOSE y \in S : TRUE IN f[x] * Product(f, S \ {x})

RECURSIVE SumValues(_, _)
SumValues(f, S) ==
    IF S = {} THEN 0
    ELSE LET x == CHOOSE y \in S : TRUE IN f[x] + SumValues(f, S \ {x})

\* one byte value makes up at least 60% of the bytes of p
Dominated(p) ==
    /\ p # <<>>
    /\ \E b \in Range(p) : 5 * Occurrences(p, 1, 0, b) >= 3 * Len(p)

\* number of reported lengths that d divides
Divided(fits, d) == Cardinality({i \in DOMAIN fits : fits[i][1] % d = 0})

\* ------------------------------------------------------------------------
\* C1
\* ------------------------------------------------------------------------
\* C1: whenever the ciphertext is a plaintext with a byte of at least 60%
\* dominance XORed with a repeated key K, 1 <= len(K) < max_key_length, the
\* estimated best length equals len(K).
C1_BestLengthIsKeyLength ==
    LengthGuessed =>
        \A L \in 1..(PARAMETERS.max_key_length - 1) :
            \A K \in [1..L -> Bytes] :
                Dominated(dexor(text, K)) => KeyLength = L

\* the bytes of K are pairwise distinct
DistinctBytes(K) == \A i, j \in DOMAIN K : i # j => K[i] # K[j]

\* p is one byte value repeated, two key lengths long or more
ConstantPlaintext(p, L) ==
    /\ Len(p) >= 2 * L
    /\ \A i, j \in DOMAIN p : p[i] = p[j]

\* C1 (amended): whenever the ciphertext is a plaintext made of one repeated
\* byte value, at least 2*len(K) bytes long, XORed with a repeated key K of
\* pairwise distinct bytes, 1 <= len(K) < max_key_length, the estimated best
\* length equals len(K).
C1_BestLengthOfConstantPlaintext ==
    LengthGuessed =>
        \A L \in 1..(PARAMETERS.max_key_length - 1) :
            \A K \in [1..L -> Bytes] :
                (/\ DistinctBytes(K)
                 /\ Len(text) >= 2 * L
                 /\ ConstantPlaintext(dexor(text, K), L))
                => KeyLength = L

\* a key of two distinct bytes over a constant plaintext, length found
C1_Witness ==
    /\ LengthGuessed
    /\ KeyLength = 2
    /\ PARAMETERS.max_key_length > 2
    /\ \E K \in [1..2 -> Bytes] :
           DistinctBytes(K) /\ ConstantPlaintext(dexor(text, K), 2)

\* ------------------------------------------------------------------------
\* C2
\* ------------------------------------------------------------------------
\* C2: if the ciphertext is P XOR K repeated, len(K) = key length <= len(P),
\* and the assumed byte attains the maximum count of P at every offset, then
\* the list guess_keys returns contains K.
C2_TrueKeyAmongGuesses ==
    (KeysGuessed /\ KeyLength \in 1..Len(text)) =>
        \A K \in [1..KeyLength -> Bytes] \ Range(probable_keys) :
            LET P == dexor(text, K)
            IN  \E o \in 0..(KeyLength - 1) :
                    ~AttainsMax(P, KeyLength, o, MostChar)

\* a key of two bytes or more is recovered among several tied candidates
C2_Witness ==
    /\ pc = "print_keys"
    /\ KeyLength \in 2..Len(text)
    /\ Len(probable_keys) >= 2
    /\ \E K \in [1..KeyLength -> Bytes] :
           /\ \A o \in 0..(KeyLength - 1) :
                  AttainsMax(dexor(text, K), KeyLength, o, MostChar)
           /\ K \in Range(probable_keys)
           /\ \E i \in 1..KeyLength : K[i] # 0

\* ------------------------------------------------------------------------
\* C3
\* ------------------------------------------------------------------------
\* C3: when the estimator returns best length 0, the run fails before key
\* generation: guess_keys does not run, no key list is returned and
\* produce_plaintexts is not reached.
C3_ZeroLengthStopsRun ==
    (Estimated /\ KeyLength = 0) =>
        /\ pc \in {"guess_probable_keys", "died"}
        /\ probable_keys = <<>>
        /\ chars_counts = <<>>

\* ------------------------------------------------------------------------
\* C4
\* ------------------------------------------------------------------------
\* C4: a run without most_frequent_char that died in guess_probable_keys
\* has produced no output: nothing printed, no directory, no file.
C4_NoOutputBeforeDie ==
    pc = "died" => (output = <<>> /\ ~dirmade /\ files = <<>>)

\* ------------------------------------------------------------------------
\* C5
\* ------------------------------------------------------------------------
\* C5: with most_frequent_char supplied no core function raises; guess_keys
\* never takes the maximum of an empty frequency table.
C5_CoreFunctionsTotal ==
    MostChar # None => pc # "ValueError"

\* ------------------------------------------------------------------------
\* C6
\* ------------------------------------------------------------------------
\* C6: for 1 <= L <= len(C) the list guess_keys returns is the Cartesian
\* product of the per-offset candidate sets, each combination once: its
\* length is the product of the set sizes and every key has length L.
C6_KeysAreCartesianProduct ==
    (KeysGuessed /\ KeyLength \in 1..Len(text)) =>
        LET cands == [i \in 1..KeyLength |->
                         Candidates(text, KeyLength, i - 1, MostChar)]
        IN  /\ \A k \in Range(probable_keys) :
                   /\ Len(k) = KeyLength
                   /\ \A i \in 1..KeyLength : k[i] \in cands[i]
            /\ Range(probable_keys) = KeysOver(cands, KeyLength)
            /\ \A i, j \in DOMAIN probable_keys :
                   i # j => probable_keys[i] # probable_keys[j]
            /\ Len(probable_keys) =
                   Product([i \in 1..KeyLength |-> Cardinality(cands[i])],
                           1..KeyLength)

\* several offsets with tied candidates: the product has four keys or more
C6_Witness ==
    /\ pc = "print_keys"
    /\ KeyLength \in 2..Len(text)
    /\ Len(probable_keys) >= 4
    /\ \E o \in 0..(KeyLength - 1) :
           Cardinality(Candidates(text, KeyLength, o, MostChar)) = 1

\* ------------------------------------------------------------------------
\* C7
\* ------------------------------------------------------------------------
\* C7: the best length is a length of the table whose fitness no other entry
\* exceeds, and it is 0 exactly when the table is empty.
C7_BestLengthIsMaximum ==
    LengthGuessed =>
        /\ (KeyLength = 0) <=> (fitnesses = <<>>)
        /\ fitnesses # <<>> =>
               \E i \in DOMAIN fitnesses :
                   /\ fitnesses[i][1] = KeyLength
                   /\ \A j \in DOMAIN fitnesses :
                          ~FitnessLess(fitnesses[i][2], fitnesses[j][2])

\* a table of two local maxima
C7_Witness ==
    /\ LengthGuessed
    /\ Len(fitnesses) >= 2
    /\ KeyLength \in {fitnesses[i][1] : i \in DOMAIN fitnesses}

\* ------------------------------------------------------------------------
\* C8
\* ------------------------------------------------------------------------
\* C8: the counts of the table of an offset sum to
\* ceil((len(C) - offset) / L), and the tables of all offsets of [0, L)
\* together count len(C) bytes.
C8_CountsSumToClassSize ==
    /\ \A i \in DOMAIN chars_counts :
           SumValues(chars_counts[i], DOMAIN chars_counts[i])
               = (Len(text) - (i - 1) + KeyLength - 1) \div KeyLength
    /\ (KeysGuessed /\ KeyLength >= 1) =>
           SumValues([i \in DOMAIN chars_counts |->
                         SumValues(chars_counts[i], DOMAIN chars_counts[i])],
                     DOMAIN chars_counts) = Len(text)

\* residue classes of unequal sizes, with a repeated byte in one of them
C8_Witness ==
    /\ pc = "print_keys"
    /\ KeyLength >= 2
    /\ Len(chars_counts) = KeyLength
    /\ Len(text) % KeyLength # 0
    /\ \E i \in DOMAIN chars_counts :
           \E c \in DOMAIN chars_counts[i] : chars_counts[i][c] >= 2

\* ------------------------------------------------------------------------
\* C9
\* ------------------------------------------------------------------------
\* C9 (as stated): the table holds neither the first candidate length 1 nor
\* the last, max_key_length: every reported L has 2 <= L <= max_key_length-1.
C9_FirstAndLastNeverReported ==
    \A i \in DOMAIN fitnesses :
        /\ 2 <= fitnesses[i][1]
        /\ fitnesses[i][1] <= PARAMETERS.max_key_length - 1

\* C9 (amended): the table never holds the last candidate length; every
\* reported L has 1 <= L <= max_key_length - 1, and length 1 is reported
\* exactly when its coincidence count is positive and its fitness exceeds
\* that of length 2.
C9_LastNeverReported ==
    LengthGuessed =>
        /\ \A i \in DOMAIN fitnesses :
               /\ 1 <= fitnesses[i][1]
               /\ fitnesses[i][1] <= PARAMETERS.max_key_length - 1
        /\ (1 \in {fitnesses[i][1] : i \in DOMAIN fitnesses})
             <=> /\ PARAMETERS.max_key_length >= 2
                 /\ count_equals(text, 1) > 0
                 /\ FitnessLess(Fitness(count_equals(text, 2), 2),
                                Fitness(count_equals(text, 1), 1))

\* the first length and the last but one are both reported
C9_Witness ==
    /\ LengthGuessed
    /\ Len(fitnesses) >= 2
    /\ fitnesses[1][1] = 1
    /\ fitnesses[Len(fitnesses)][1] = PARAMETERS.max_key_length - 1

\* ------------------------------------------------------------------------
\* C10
\* ------------------------------------------------------------------------
\* C10 (as stated): for every table, the empty one included, the returned D
\* is a divisor >= 3 of a reported length, and no divisor >= 3 divides more
\* reported lengths than D.
C10_DivizorIsMostCommon ==
    LengthGuessed =>
        /\ divizor >= MinDivizor
        /\ Divided(fitnesses, divizor) >= 1
        /\ \A d \in MinDivizor..PARAMETERS.max_key_length :
               Divided(fitnesses, d) <= Divided(fitnesses, divizor)

\* C10 (amended): when some reported length is 3 or above, D is a divisor
\* >= 3 of a reported length and no divisor >= 3 divides more reported
\* lengths than D; when none is (the empty table included), D is
\* max_key_length.  The table and the best length are those the estimator
\* computed.
C10_DivizorIsMostCommonIfAny ==
    LengthGuessed =>
        /\ IF \E i \in DOMAIN fitnesses : fitnesses[i][1] >= MinDivizor
           THEN /\ divizor >= MinDivizor
                /\ Divided(fitnesses, divizor) >= 1
                /\ \A d \in MinDivizor..PARAMETERS.max_key_length :
                       Divided(fitnesses, d) <= Divided(fitnesses, divizor)
           ELSE divizor = PARAMETERS.max_key_length
        /\ fitnesses = calculate_fitnesses(text, PARAMETERS.max_key_length)
        /\ KeyLength \in {0} \cup {fitnesses[i][1] : i \in DOMAIN fitnesses}

\* a table with a reported length of 3 or above, D among its divisors
C10_Witness ==
    /\ LengthGuessed
    /\ \E i \in DOMAIN fitnesses :
           fitnesses[i][1] >= MinDivizor /\ fitnesses[i][1] % divizor = 0
    /\ divizor < PARAMETERS.max_key_length

====
